---- MODULE Spec2Model ----
(***************************************************************************)
(* The live-video overlay engine of backend/tracker.py (class Segmenter)   *)
(* and the producer/consumer frame pipeline of backend/server.py           *)
(* (websocket_endpoint: receiver / processor).                             *)
(*                                                                         *)
(* One WebSocket connection is modelled, together with the process-wide    *)
(* Segmenter it renders through and the calls (propose_masks, apply_masks, *)
(* clear_masks) that the query path makes on that same Segmenter.          *)
(***************************************************************************)
EXTENDS Integers, Sequences, FiniteSets, TLC

\* ---------------------------------------------------------------- bounds
MaxEvents == 3    \* what the environment does in one run: messages sent
                  \* on the connection, a disconnect, calls of the query path
MaxProps == 2     \* contours one detection pass returns
MaxScore == 2     \* scores are 1..MaxScore
MaxIdxLen == 2    \* length of the index list handed to apply_masks
MaxRenders == 62  \* render_frame calls made in a row on one Segmenter

\* ------------------------------------------------------ program constants
recalc_interval == 60
max_selected == 220
ConfPct == 72
NumColors == 7
proposal_limit == 400

\* ------------------------------------------------------------ value sets
NoDims == <<0, 0>>

\* A wire frame.  kind "b64": a base64 string without a comma that decodes
\* to an image; "uri": the same payload behind a "data:...;base64," prefix;
\* "junk": a string without a comma that does not decode; "num": a truthy
\* JSON value that is not a string (the "frame" field of a JSON message is
\* taken as it comes); "jpg": the re-encoded overlay image render_frame
\* produces.  id is the arrival number of the message that carried it.
NoFrame == [id |-> 0, kind |-> "none", dims |-> NoDims]
FrameKinds == {"b64", "uri", "junk", "num"}
\* the frames the environment sends: one of each kind, the two decodable
\* ones of different sizes
KindDims(k) == IF k = "b64" THEN <<2, 2>>
               ELSE IF k = "uri" THEN <<4, 4>> ELSE NoDims

\* frame.split(',', 1)[-1] if ',' in frame else frame
Strip(f) == IF f.kind = "uri" THEN [f EXCEPT !.kind = "b64"] ELSE f

IsStr(f) == f.kind # "num"

\* Segmenter._decode: the image (its (h, w)) or None
decode(raw) == IF raw.kind = "b64" THEN raw.dims ELSE NoDims

\* the query, by the keywords apply_masks looks for
Queries == [all : BOOLEAN, specific : BOOLEAN]

IdxVals == (-1) .. MaxProps
IndexLists == UNION {[1..n -> IdxVals] : n \in 0..MaxIdxLen}

\* what a detection pass returns, in discovery order: for each contour its
\* score against the query and whether _sanitize_contour accepts it (the
\* score of a contour that is not accepted is never looked at)
DetItems == [ok : {TRUE}, score : 1..MaxScore]
                \cup {[ok |-> FALSE, score |-> 1]}
DetResults == UNION {[1..n -> DetItems] : n \in 0..MaxProps}

MsgNoProposals == "No proposals available. Call propose_masks first."
MsgNoValid == "No valid proposal indices provided."
MsgNoContours == "Selected indices did not contain valid filled contours."
MsgApplied == "Applied"
MsgCleared == "Cleared"
MsgNoImage == "No image available - send a frame over the WebSocket first."
MsgProposed == "count"

VARIABLES
    \* --- the connection (server.py)
    ws,               \* the transport: "open" or "closed"
    latest_frame,     \* the shared slot: [data, event]
    rpc,              \* receiver: "recv" or "done"
    ppc,              \* processor: "start", "blocked", "woken", "render",
                      \*   "overlay", "catch", "send", "done"
    frame,            \* processor local: the frame read from the slot
    edited_frame,     \* processor local: what it is about to send
    render_err,       \* processor local: this iteration took the except branch
    \* --- the Segmenter (tracker.py)
    active_masks,
    latest_proposals,
    original_dimensions,
    latest_b64,
    frame_counter,
    color_idx,
    pending,          \* the propose_masks calls in flight, in the order they
                      \*   were issued: of each the image it decoded and its
                      \*   number among the calls of the query path
    \* --- history, for stating the properties
    nmsgs,            \* messages received so far
    newest,           \* id of the last frame written to the slot
    processed,        \* ids of the frames handed to render_frame, in order
    dropped,          \* ids of the frames overwritten before being read
    nsent,            \* frames sent back to the client
    ncalls,           \* calls made by the query path
    last,             \* the last call of the query path and its reply
    \* --- one call of a Segmenter function on its own
    call              \* the function, its arguments and, once it has
                      \*   returned, its result

conn == <<ws, latest_frame, rpc, ppc, frame, edited_frame, render_err>>
seg == <<active_masks, latest_proposals, original_dimensions, latest_b64,
         frame_counter, color_idx, pending>>
hist == <<nmsgs, newest, processed, dropped, nsent, ncalls, last>>
vars == <<conn, seg, hist, call>>

SegState == [active_masks |-> active_masks,
             latest_proposals |-> latest_proposals,
             original_dimensions |-> original_dimensions,
             latest_b64 |-> latest_b64,
             frame_counter |-> frame_counter,
             color_idx |-> color_idx]

\* a call of the query path and its reply: the operation, the call that
\* came before it, the length of the index list it was given, the reply's
\* message and the count the reply carries; for a propose_masks call that
\* ran a detection, its number among the calls of the query path
NoCall == [op |-> "none", prev |-> "none", nidx |-> 0, msg |-> "", n |-> 0,
           k |-> 0]

Last(s) == s[Len(s)]
SeqRange(s) == {s[i] : i \in 1..Len(s)}
Min(a, b) == IF a < b THEN a ELSE b
RemoveAt(s, i) == SubSeq(s, 1, i - 1) \o SubSeq(s, i + 1, Len(s))

\* ------------------------------------------------------------------------
\* Segmenter: scaling helpers and recalibration (tracker.py)
\* ------------------------------------------------------------------------

\* --- coordinates

Clip(v, lo, hi) == IF v < lo THEN lo ELSE IF v > hi THEN hi ELSE v

\* np.rint of num / den (num >= 0, den > 0): the nearest integer, a tie
\* going to the even one
rint(num, den) ==
    LET q == num \div den
        r == num % den
    IN IF 2 * r < den THEN q
       ELSE IF 2 * r > den THEN q + 1
       ELSE IF q % 2 = 0 THEN q ELSE q + 1

\* _normalize_contours, lines 811-812, for one coordinate v of an image w
\* wide (or high): np.clip(v / float(w), 0.0, 1.0), kept as a fraction
normalize_coord(v, w) == [num |-> Clip(v, 0, w), den |-> w]

\* a projection that forgets the size of the target frame
project_coord_unscaled(n, w) ==
    Clip(rint(n.num, n.den), 0, IF w - 1 > 0 THEN w - 1 ELSE 0)

\* _contours_from_normalized, lines 829-830, for one coordinate:
\* np.clip(np.rint(n * float(w)), 0, max(0, w - 1)).  The product is exact
\* in floating point for the sizes used here.
project_coord(n, w) ==
    Clip(rint(n.num * w, n.den), 0, IF w - 1 > 0 THEN w - 1 ELSE 0)

\* _normalize_contours, lines 808-813, for one contour, a sequence of points
\* <<x, y>>, and dims = (h, w)
normalize_points(contour, dims) ==
    [i \in 1..Len(contour) |-> <<normalize_coord(contour[i][1], dims[2]),
                                 normalize_coord(contour[i][2], dims[1])>>]

\* _contours_from_normalized, lines 826-831, for one contour and hw = (h, w)
project_points(norm, hw) ==
    [i \in 1..Len(norm) |-> <<project_coord(norm[i][1], hw[2]),
                              project_coord(norm[i][2], hw[1])>>]

\* _scale_contours, lines 841-854, for one contour: the product truncated
\* (astype(np.int32)), the contour as it is between equal sizes
scale_points(contour, orig, hw) ==
    IF orig = hw THEN contour
    ELSE [i \in 1..Len(contour) |->
            <<(contour[i][1] * hw[2]) \div (IF orig[2] > 1 THEN orig[2] ELSE 1),
              (contour[i][2] * hw[1]) \div (IF orig[1] > 1 THEN orig[1] ELSE 1)>>]

\* --- contours by name

\* Segmenter._normalize_contours: None (here <<>>) without usable dims, else
\* every contour divided by (w, h); the quotient is kept as the pair
\* (contour, dims it is relative to)
normalize_contours(contours, dims) ==
    IF dims = NoDims THEN <<>>
    ELSE [i \in 1..Len(contours) |-> [c |-> contours[i], of |-> dims]]

\* Segmenter._contours_from_normalized: the projection to an (h, w) frame
contours_from_normalized(norm_contours, hw) ==
    IF hw[1] <= 0 \/ hw[2] <= 0 THEN <<>>
    ELSE [i \in 1..Len(norm_contours) |->
            [c |-> norm_contours[i].c, of |-> norm_contours[i].of, at |-> hw,
             how |-> "project"]]

\* Segmenter._scale_contours: direct scaling from the source dimensions
scale_contours(contours, orig, hw) ==
    [i \in 1..Len(contours) |->
        [c |-> contours[i], of |-> orig, at |-> hw, how |-> "scale"]]

\* The points of a contour found in an (h, w) image.  A detection pass
\* returns points inside the image; the model takes, for the contour found
\* n-th, the corner the image starts at, a point that depends on n, and
\* the last pixel of the last row.
outline(contour, dims) ==
    <<<<0, 0>>,
      <<contour.n % dims[2], (contour.n + 1) % dims[1]>>,
      <<dims[2] - 1, dims[1] - 1>>>>

\* the pixel coordinates of a cached contour
pixels(p) ==
    IF p.how = "project"
    THEN project_points(normalize_points(outline(p.c, p.of), p.of), p.at)
    ELSE IF p.how = "scale" THEN scale_points(outline(p.c, p.of), p.of, p.at)
    ELSE outline(p.c, p.at)

\* an _ensure_scaled that takes any cache for a hit, whatever its size
ensure_scaled_any_size(md, hw) ==
    IF md.raster # "None" THEN md
    ELSE [md EXCEPT !.contours =
                        contours_from_normalized(md.normalized_contours, hw),
                    !.raster = "mask", !.scaled_for = hw]

\* Segmenter._ensure_scaled, for one mask dict
ensure_scaled(md, hw) ==
    IF md.scaled_for = hw /\ md.raster # "None" THEN md
    ELSE LET scaled ==
                 IF md.normalized_contours # <<>>
                 THEN contours_from_normalized(md.normalized_contours, hw)
                 ELSE IF md.original_dimensions # NoDims
                 THEN scale_contours(md.original_contours,
                                     md.original_dimensions, hw)
                 ELSE [i \in 1..Len(md.original_contours) |->
                         [c |-> md.original_contours[i], of |-> hw, at |-> hw,
                          how |-> "copy"]]
         IN [md EXCEPT !.contours = scaled, !.raster = "mask",
                       !.scaled_for = hw]

\* the elements of s whose score is in V, highest score first, those of
\* one score in the order they have in s
RECURSIVE by_score(_, _)
by_score(s, V) ==
    IF V = {} THEN <<>>
    ELSE LET top == CHOOSE v \in V : \A w \in V : w <= v
         IN SelectSeq(s, LAMBDA x : x.score = top) \o by_score(s, V \ {top})

\* list.sort(key=score, reverse=True): stable, descending
sort_desc(s) == by_score(s, {s[i].score : i \in 1..Len(s)})

\* the contours of a detection pass that _sanitize_contour accepts, each
\* with its score, in discovery order; a contour is named by its place
\* among them and by the pass that found it
scored_contours(det, by) ==
    LET kept == SelectSeq(det, LAMBDA c : c.ok)
    IN [i \in 1..Len(kept) |-> [contour |-> [n |-> i, by |-> by],
                                score |-> kept[i].score]]

\* score >= peak * t, the fraction t given in hundredths
in_band_at(score, peak, pct) == 100 * score >= pct * peak

\* score >= peak * 0.72
in_band(score, peak) == in_band_at(score, peak, ConfPct)

\* _recalc_masks, lines 897-910: the fresh contours the pass takes, the
\* best first, those at or above the band's floor, at most 220
recalc_selected(det) ==
    LET scored == sort_desc(scored_contours(det, "recalc"))
        peak == IF scored = <<>> THEN 0 ELSE scored[1].score
        band == SelectSeq(scored, LAMBDA p : in_band(p.score, peak))
    IN [i \in 1..Min(Len(band), max_selected) |-> band[i].contour]

\* _recalc_masks, lines 913-919: the set takes the fresh contours and its
\* cache is dropped
recalc_update(md, hw, selected) ==
    [md EXCEPT !.original_contours = selected,
               !.normalized_contours = normalize_contours(selected, hw),
               !.original_dimensions = hw,
               !.contours = <<>>,
               !.raster = "None",
               !.scaled_for = NoDims]

\* a pass that takes what the band leaves, even when that is nothing
recalc_mask_unchecked(md, hw, det) ==
    IF det = <<>> THEN md ELSE recalc_update(md, hw, recalc_selected(det))

\* Segmenter._recalc_masks, for one mask dict and the detection result of
\* the pass made for it (a pass that raises is skipped like an empty one)
recalc_mask(md, hw, det) ==
    LET selected == recalc_selected(det)
    IN IF det = <<>> \/ selected = <<>> THEN md
       ELSE recalc_update(md, hw, selected)

recalc_masks(masks, hw, det) ==
    [i \in 1..Len(masks) |-> recalc_mask(masks[i], hw, det)]

\* ------------------------------------------------------------------------
\* The connection (server.py, websocket_endpoint)
\* ------------------------------------------------------------------------

\* the environment may still act
Budget == nmsgs + ncalls + (IF ws = "closed" THEN 1 ELSE 0) < MaxEvents

\* a set() that loses the wake-up of the task blocked in wait()
released_never(pc) == pc

\* latest_frame["event"].set(), seen from the processor: a task blocked in
\* wait() is released and will resume; any other is where it was
released(pc) == IF pc = "blocked" THEN "woken" ELSE pc

SetEvent ==
    /\ latest_frame' = [latest_frame EXCEPT !.event = TRUE]
    /\ ppc' = released(ppc)

\* a write that leaves the event as it finds it
write_slot_no_signal(slot, f) == [data |-> f, event |-> slot.event]

\* a slot that keeps a frame nobody has read yet
write_slot_keep_unread(slot, f) ==
    IF slot.event THEN slot ELSE [data |-> f, event |-> TRUE]

\* latest_frame["data"] = frame; latest_frame["event"].set()
write_slot(slot, f) == [data |-> f, event |-> TRUE]

Unread == /\ latest_frame.data # NoFrame
          /\ latest_frame.data.id \notin SeqRange(processed)

\* receiver: a message that carries a frame
receiver_frame(k) ==
    /\ rpc = "recv" /\ ws = "open" /\ Budget
    /\ nmsgs' = nmsgs + 1
    /\ latest_frame' = write_slot(latest_frame,
                                  [id |-> nmsgs + 1, kind |-> k,
                                   dims |-> KindDims(k)])
    /\ ppc' = released(ppc)
    /\ newest' = nmsgs + 1
    /\ dropped' = IF Unread THEN dropped \cup {latest_frame.data.id}
                  ELSE dropped
    /\ UNCHANGED <<ws, rpc, frame, edited_frame, render_err, seg,
                   processed, nsent, ncalls, last>>
    /\ UNCHANGED call

\* receiver: a message without a frame (no "frame" field, or an empty one)
receiver_noframe ==
    /\ rpc = "recv" /\ ws = "open" /\ Budget
    /\ nmsgs' = nmsgs + 1
    /\ UNCHANGED <<conn, seg, newest, processed, dropped, nsent, ncalls, last>>
    /\ UNCHANGED call

\* the client goes away
client_disconnect ==
    /\ ws = "open" /\ Budget
    /\ ws' = "closed"
    /\ UNCHANGED <<latest_frame, rpc, ppc, frame, edited_frame, render_err,
                   seg, hist>>
    /\ UNCHANGED call

\* receiver: websocket.receive() reports the disconnect; the except branch
\* sets the event and re-raises
receiver_disconnect ==
    /\ rpc = "recv" /\ ws = "closed"
    /\ SetEvent
    /\ rpc' = "done"
    /\ UNCHANGED <<ws, frame, edited_frame, render_err, seg, hist>>
    /\ UNCHANGED call

\* processor, lines 80-84: event.clear(); frame = latest_frame["data"]; on
\* None it continues, and the wait() it comes back to finds the event
\* clear and blocks
Consume ==
    /\ latest_frame' = [latest_frame EXCEPT !.event = FALSE]
    /\ frame' = latest_frame.data
    /\ IF latest_frame.data = NoFrame
       THEN ppc' = "blocked" /\ processed' = processed
       ELSE ppc' = "render"
            /\ processed' = Append(processed, latest_frame.data.id)

\* processor, line 79: await event.wait().  With the event set it returns
\* at once, without yielding to the event loop; otherwise the task blocks.
AwaitEvent ==
    IF latest_frame.event THEN Consume
    ELSE /\ ppc' = "blocked" /\ frame' = NoFrame
         /\ UNCHANGED <<latest_frame, processed>>

\* processor: the task's first run, up to its first suspension
processor_start ==
    /\ ppc = "start"
    /\ AwaitEvent
    /\ UNCHANGED <<ws, rpc, edited_frame, render_err, seg, nmsgs, newest,
                   dropped, nsent, ncalls, last>>
    /\ UNCHANGED call

\* processor: released by set(), it resumes after event.wait()
processor_wake ==
    /\ ppc = "woken"
    /\ Consume
    /\ UNCHANGED <<ws, rpc, edited_frame, render_err, seg, nmsgs, newest,
                   dropped, nsent, ncalls, last>>
    /\ UNCHANGED call

\* a render_frame without the pass-through
fast_path_off(masks) == FALSE

\* render_frame, line 934: if not self.active_masks
fast_path(masks) == masks = <<>>

\* a render_frame that gives nothing back for a frame it cannot decode
undecodable_result_empty(raw) == NoFrame

\* render_frame, lines 938-940: frame = self._decode(raw); None -> return raw
undecodable_result(raw) == raw

\* render_frame, lines 929-935, on the worker thread
render_frame_enter ==
    /\ ppc = "render"
    /\ IF ~IsStr(frame)
       THEN \* ',' in b64_frame raises TypeError
            /\ ppc' = "catch"
            /\ UNCHANGED <<edited_frame, seg>>
       ELSE /\ latest_b64' = Strip(frame)
            /\ frame_counter' = frame_counter + 1
            /\ IF fast_path(active_masks)
               THEN ppc' = "send" /\ edited_frame' = Strip(frame)
               ELSE ppc' = "overlay" /\ edited_frame' = edited_frame
            /\ UNCHANGED <<active_masks, latest_proposals,
                           original_dimensions, color_idx, pending>>
    /\ UNCHANGED <<ws, latest_frame, rpc, frame, render_err, hist>>
    /\ UNCHANGED call

RecalcDue == frame_counter % recalc_interval = 0 /\ active_masks # <<>>

RenderFailures ==
    {"none", "scale", "draw", "encode"}
        \cup (IF RecalcDue THEN {"recalc"} ELSE {})

\* render_frame, lines 938-974, on the worker thread: decode, recalibrate
\* when due, validate the caches, composite, encode.  fail names the stage
\* that raises, if any; det is what the recalibration's detection returns.
render_frame_overlay(fail, det) ==
    /\ ppc = "overlay"
    /\ LET raw == Strip(frame)
           hw == decode(raw)
           recalced == IF RecalcDue /\ fail # "recalc"
                       THEN recalc_masks(active_masks, hw, det)
                       ELSE active_masks
           scaled == [i \in 1..Len(recalced) |-> ensure_scaled(recalced[i], hw)]
       IN IF hw = NoDims
          THEN /\ fail = "none" /\ det = <<>>
               /\ edited_frame' = undecodable_result(raw) /\ ppc' = "send"
               /\ active_masks' = active_masks
          ELSE /\ fail \in RenderFailures
               /\ (det # <<>> => RecalcDue /\ fail # "recalc")
               /\ active_masks' = IF fail \in {"recalc", "scale"}
                                  THEN recalced ELSE scaled
               /\ IF fail = "none"
                  THEN /\ edited_frame' = [id |-> frame.id, kind |-> "jpg",
                                           dims |-> hw]
                       /\ ppc' = "send"
                  ELSE /\ edited_frame' = edited_frame
                       /\ ppc' = "catch"
    /\ UNCHANGED <<ws, latest_frame, rpc, frame, render_err, latest_proposals,
                   original_dimensions, latest_b64, frame_counter, color_idx,
                   pending, hist>>
    /\ UNCHANGED call

\* --- render_frame step by step.  The call runs on a worker thread
\* (asyncio.to_thread, server.py line 88) while the event loop goes on
\* serving the query path, and it takes no lock: between any two of the
\* steps below apply_masks or clear_masks may run to its end.  Each loop of
\* render_frame reads self.active_masks anew.  The library calls succeed.

\* lines 938-946: decode; an undecodable frame is returned as it is;
\* recalibrate when due
thread_decode(det) ==
    /\ ppc = "overlay"
    /\ LET raw == Strip(frame)
           hw == decode(raw)
       IN IF hw = NoDims
          THEN /\ det = <<>>
               /\ edited_frame' = undecodable_result(raw) /\ ppc' = "send"
               /\ active_masks' = active_masks
          ELSE /\ (det # <<>> => RecalcDue)
               /\ active_masks' = IF RecalcDue
                                  THEN recalc_masks(active_masks, hw, det)
                                  ELSE active_masks
               /\ edited_frame' = edited_frame /\ ppc' = "scale"
    /\ UNCHANGED <<ws, latest_frame, rpc, frame, render_err, latest_proposals,
                   original_dimensions, latest_b64, frame_counter, color_idx,
                   pending, hist>>
    /\ UNCHANGED call

\* lines 949-953: for md in self.active_masks: self._ensure_scaled(md, h, w)
thread_scale ==
    /\ ppc = "scale"
    /\ active_masks' = [i \in 1..Len(active_masks) |->
                           ensure_scaled(active_masks[i], decode(Strip(frame)))]
    /\ ppc' = "fill"
    /\ UNCHANGED <<ws, latest_frame, rpc, frame, edited_frame, render_err,
                   latest_proposals, original_dimensions, latest_b64,
                   frame_counter, color_idx, pending, hist>>
    /\ UNCHANGED call

\* lines 956-965: for mask in self.active_masks: the raster is painted, a
\* mask without one is passed over
thread_fill ==
    /\ ppc = "fill"
    /\ ppc' = "outline"
    /\ UNCHANGED <<ws, latest_frame, rpc, frame, edited_frame, render_err,
                   seg, hist>>
    /\ UNCHANGED call

\* lines 967-974: for mask in self.active_masks: the contours are drawn;
\* mask.get("contours", []) of a dict that apply_masks has just installed
\* is None, and iterating it raises TypeError; then the image is encoded
thread_outline ==
    /\ ppc = "outline"
    /\ IF \E i \in 1..Len(active_masks) : active_masks[i].raster = "None"
       THEN ppc' = "catch" /\ edited_frame' = edited_frame
       ELSE /\ ppc' = "send"
            /\ edited_frame' = [id |-> frame.id, kind |-> "jpg",
                                dims |-> decode(Strip(frame))]
    /\ UNCHANGED <<ws, latest_frame, rpc, frame, render_err, seg, hist>>
    /\ UNCHANGED call

\* processor: the except branch, lines 89-91.  On a frame that is not a
\* string ',' in frame raises again: the exception leaves the loop, gather
\* propagates it, the endpoint returns and the server closes the socket.
processor_catch ==
    /\ ppc = "catch"
    /\ IF IsStr(frame)
       THEN /\ edited_frame' = Strip(frame)
            /\ render_err' = TRUE
            /\ ppc' = "send"
            /\ ws' = ws
       ELSE /\ ppc' = "done"
            /\ ws' = "closed"
            /\ UNCHANGED <<edited_frame, render_err>>
    /\ UNCHANGED <<latest_frame, rpc, frame, seg, hist>>
    /\ UNCHANGED call

\* processor: await websocket.send_text(edited_frame), and from its return
\* to the next suspension of the task; on a closed transport the send
\* raises and the loop ends
processor_send ==
    /\ ppc = "send"
    /\ IF ws = "open"
       THEN /\ nsent' = nsent + 1
            /\ AwaitEvent
       ELSE /\ nsent' = nsent
            /\ ppc' = "done" /\ frame' = NoFrame
            /\ UNCHANGED <<latest_frame, processed>>
    \* the locals are dead until the next iteration assigns them
    /\ edited_frame' = NoFrame /\ render_err' = FALSE
    /\ UNCHANGED <<ws, rpc, seg, nmsgs, newest, dropped, ncalls, last>>
    /\ UNCHANGED call

\* ------------------------------------------------------------------------
\* Segmenter: propose / select / clear (tracker.py)
\* ------------------------------------------------------------------------

\* the frame a /query request may carry: none, or a string
ProposeFrames ==
    {NoFrame} \cup {[id |-> 0, kind |-> k, dims |-> KindDims(k)] :
                        k \in {"b64", "uri", "junk"}}

\* propose_masks, lines 637-640: the image of the frame the call carries
own_image(f) == IF f # NoFrame THEN decode(Strip(f)) ELSE NoDims

\* a propose_masks that works on a blank image when it has none
pick_image_blank(f, b64) ==
    IF own_image(f) # NoDims THEN own_image(f)
    ELSE IF b64 # NoFrame THEN decode(b64)
    ELSE <<2, 2>>

\* propose_masks, lines 637-647: the image the call works on, its own
\* frame's before the last one rendered
pick_image(f, b64) ==
    IF own_image(f) # NoDims THEN own_image(f)
    ELSE IF b64 # NoFrame THEN decode(b64)
    ELSE NoDims

\* propose_masks, lines 630-650: pick the image; without one the call
\* returns the no-image message.  The detection then runs off the event
\* loop (asyncio.to_thread), so other work, further propose_masks calls
\* included, interleaves before the result is stored.
propose_masks_begin(f) ==
    /\ Budget
    /\ LET raw == Strip(f)
           own == own_image(f)
           img == pick_image(f, latest_b64)
       IN /\ latest_b64' = IF own # NoDims THEN raw ELSE latest_b64
          /\ pending' = IF img = NoDims THEN pending
                        ELSE Append(pending, [img |-> img, k |-> ncalls + 1])
          /\ last' = IF img = NoDims
                     THEN [NoCall EXCEPT !.op = "propose", !.prev = last.op,
                                         !.msg = MsgNoImage]
                     ELSE last
    /\ ncalls' = ncalls + 1
    /\ UNCHANGED <<conn, active_masks, latest_proposals, original_dimensions,
                   frame_counter, color_idx, nmsgs, newest, processed,
                   dropped, nsent>>
    /\ UNCHANGED call

\* a _store_proposals that keeps the contours in the order they were found
store_proposals_as_found(det) ==
    LET proposals == scored_contours(det, "propose")
        limit == IF proposal_limit > 1 THEN proposal_limit ELSE 1
    IN SubSeq(proposals, 1, Min(Len(proposals), limit))

\* Segmenter._store_proposals
store_proposals(det) ==
    LET proposals == sort_desc(scored_contours(det, "propose"))
        limit == IF proposal_limit > 1 THEN proposal_limit ELSE 1
    IN SubSeq(proposals, 1, Min(Len(proposals), limit))

\* a _store_proposals that leaves the dimensions unset
stored_dimensions_unset(img_shape) == NoDims

\* _store_proposals, line 627: self._original_dimensions = img_shape[:2]
stored_dimensions(img_shape) == <<img_shape[1], img_shape[2]>>

\* a _store_proposals that adds to the proposals it finds
extend_proposals(old, new) == old \o new

\* _store_proposals, line 626: self.latest_proposals = proposals[:limit]
replace_proposals(old, new) == new

\* propose_masks, lines 662-696, for the i-th of the calls in flight: its
\* detection returns and the result replaces the proposal set (a timeout
\* or a failing backend ends in the fast path's result, which is a
\* detection result like any other)
propose_masks_end(i, det) ==
    /\ i \in 1..Len(pending)
    /\ IF det = <<>>
       THEN /\ latest_proposals' = <<>>
            /\ original_dimensions' = NoDims
       ELSE /\ latest_proposals' = replace_proposals(latest_proposals,
                                                     store_proposals(det))
            /\ original_dimensions' = stored_dimensions(pending[i].img)
    /\ pending' = RemoveAt(pending, i)
    /\ last' = [NoCall EXCEPT !.op = "propose", !.prev = last.op,
                               !.msg = MsgProposed,
                               !.n = Len(latest_proposals'),
                               !.k = pending[i].k]
    /\ UNCHANGED <<conn, active_masks, latest_b64, frame_counter, color_idx,
                   nmsgs, newest, processed, dropped, nsent, ncalls>>
    /\ UNCHANGED call

\* apply_masks, lines 702-707: in range, first occurrence only
valid_indices(indices, proposals) ==
    LET keep(i) == /\ indices[i] \in 0..(Len(proposals) - 1)
                   /\ \A j \in 1..(i - 1) : indices[j] # indices[i]
        F[i \in 0..Len(indices)] ==
            IF i = 0 THEN <<>>
            ELSE IF keep(i) THEN Append(F[i - 1], indices[i]) ELSE F[i - 1]
    IN F[Len(indices)]

\* sorted(set), for a set of integers: the integers from its least to its
\* greatest element that are in it
sorted(S) ==
    IF S = {} THEN <<>>
    ELSE LET lo == CHOOSE x \in S : \A y \in S : x <= y
             hi == CHOOSE x \in S : \A y \in S : y <= x
         IN SelectSeq([i \in 1..(hi - lo + 1) |-> lo + i - 1],
                      LAMBDA x : x \in S)

\* apply_masks, lines 715-717
all_indices(valid, q, proposals) ==
    IF q.all /\ Len(proposals) > Len(valid)
    THEN [i \in 1..Min(max_selected, Len(proposals)) |-> i - 1]
    ELSE valid

\* max(scores)
peak_score(proposals) ==
    CHOOSE s \in {proposals[i].score : i \in 1..Len(proposals)} :
        \A i \in 1..Len(proposals) : proposals[i].score <= s

\* apply_masks, lines 721-725, with the band's floor at pct hundredths of
\* the peak
conf_indices_at(proposals, pct) ==
    LET peak == peak_score(proposals)
    IN {i - 1 : i \in {j \in 1..Len(proposals) :
                          in_band_at(proposals[j].score, peak, pct)}}

\* apply_masks, lines 721-725
conf_indices(proposals) == conf_indices_at(proposals, ConfPct)

\* apply_masks, lines 719-727, with the band's floor at pct
band_indices_at(valid, q, proposals, pct) ==
    LET conf == conf_indices_at(proposals, pct)
    IN IF ~q.specific /\ proposals # <<>> /\ Cardinality(conf) > Len(valid)
       THEN sorted(SeqRange(valid) \cup conf)
       ELSE valid

\* apply_masks, lines 719-727
band_indices(valid, q, proposals) ==
    band_indices_at(valid, q, proposals, ConfPct)

\* an apply_masks that does not cut its selection
selected_indices_at_uncut(indices, q, proposals, pct) ==
    band_indices_at(all_indices(valid_indices(indices, proposals),
                                q, proposals), q, proposals, pct)

\* apply_masks, lines 702-729, with the band's floor at pct
selected_indices_at(indices, q, proposals, pct) ==
    LET v == band_indices_at(all_indices(valid_indices(indices, proposals),
                                         q, proposals), q, proposals, pct)
    IN SubSeq(v, 1, Min(Len(v), max_selected))

\* apply_masks, lines 702-729: the indices that are activated
selected_indices(indices, q, proposals) ==
    selected_indices_at(indices, q, proposals, ConfPct)

\* an apply_masks that looks at the indices before the proposals
apply_reply_indices_first(indices, q, proposals) ==
    IF valid_indices(indices, proposals) = <<>> THEN MsgNoValid
    ELSE IF proposals = <<>> THEN MsgNoProposals
    ELSE IF selected_indices(indices, q, proposals) = <<>> THEN MsgNoContours
    ELSE MsgApplied

\* apply_masks, lines 699-710 and 737: the reply
apply_reply(indices, q, proposals) ==
    IF proposals = <<>> THEN MsgNoProposals
    ELSE IF valid_indices(indices, proposals) = <<>> THEN MsgNoValid
    ELSE IF selected_indices(indices, q, proposals) = <<>> THEN MsgNoContours
    ELSE MsgApplied

\* apply_masks, lines 731-760: the mask dict that is installed.  Every
\* stored proposal has passed _sanitize_contour, which returns it as it
\* is, so it passes again.
new_mask(indices, q, proposals, dims, cidx) ==
    LET v == selected_indices(indices, q, proposals)
        selected == [i \in 1..Len(v) |-> proposals[v[i] + 1].contour]
    IN [original_contours |-> selected,
        normalized_contours |-> normalize_contours(selected, dims),
        original_dimensions |-> dims,
        contours |-> <<>>,
        raster |-> "None",
        scaled_for |-> NoDims,
        color |-> cidx % NumColors,
        query |-> q]

\* an apply_masks that adds to the sets already active
install_accumulate(masks, md) == Append(masks, md)

\* apply_masks, lines 741 and 751: self.active_masks.clear(); .append(...)
install(masks, md) == <<md>>

\* an apply_masks that empties active_masks before it looks at its input
masks_after_clear_first(masks, msg, md) ==
    IF msg = MsgApplied THEN install(masks, md) ELSE <<>>

\* apply_masks, lines 699-751: active_masks when the call returns; the
\* returns at 700, 710 and 738 come before line 741 touches it
masks_after(masks, msg, md) ==
    IF msg = MsgApplied THEN install(masks, md) ELSE masks

apply_masks(indices, q) ==
    /\ Budget
    /\ ncalls' = ncalls + 1
    /\ LET msg == apply_reply(indices, q, latest_proposals)
       IN /\ last' = [op |-> "apply", prev |-> last.op,
                      nidx |-> Len(indices), msg |-> msg,
                      n |-> IF msg = MsgApplied
                            THEN Len(selected_indices(indices, q,
                                                      latest_proposals))
                            ELSE 0,
                      k |-> 0]
          /\ active_masks' =
                 masks_after(active_masks, msg,
                             new_mask(indices, q, latest_proposals,
                                      original_dimensions, color_idx))
          /\ color_idx' = IF msg = MsgApplied THEN color_idx + 1
                          ELSE color_idx
    /\ UNCHANGED <<conn, latest_proposals, original_dimensions, latest_b64,
                   frame_counter, pending, nmsgs, newest, processed,
                   dropped, nsent>>
    /\ UNCHANGED call

\* a clear_masks that leaves the proposal set
clear_masks_keep_proposals(s) ==
    [s EXCEPT !.active_masks = <<>>,
              !.original_dimensions = NoDims,
              !.color_idx = 0]

\* Segmenter.clear_masks, as a function of the engine state
clear_masks(s) ==
    [s EXCEPT !.active_masks = <<>>,
              !.latest_proposals = <<>>,
              !.original_dimensions = NoDims,
              !.color_idx = 0]

clear ==
    /\ Budget
    /\ ncalls' = ncalls + 1
    /\ LET s == clear_masks(SegState)
       IN /\ active_masks' = s.active_masks
          /\ latest_proposals' = s.latest_proposals
          /\ original_dimensions' = s.original_dimensions
          /\ latest_b64' = s.latest_b64
          /\ frame_counter' = s.frame_counter
          /\ color_idx' = s.color_idx
    /\ last' = [NoCall EXCEPT !.op = "clear", !.prev = last.op,
                               !.msg = MsgCleared, !.n = Len(active_masks)]
    /\ UNCHANGED <<conn, pending, nmsgs, newest, processed, dropped, nsent>>
    /\ UNCHANGED call

\* ------------------------------------------------------------------------
\* Segmenter functions called on their own, on inputs of the sizes at which
\* the caps of tracker.py act (220 selected contours, 400 proposals)
\* ------------------------------------------------------------------------

\* The query as apply_masks reads it: lower-cased, then searched for
\* tokens with `in`, which finds a token inside a longer word.  A query is
\* modelled by the set of its words.
QueryTexts == {{"cells"}, {"all", "cells"}, {"every", "cells"},
               {"largest", "cells"}, {"smallest", "cells"}, {"all", "top"}}

\* tok in word, for the words above: "smallest" contains "all"
has_token(word, tok) == word = tok \/ (word = "smallest" /\ tok = "all")

\* apply_masks, line 716: "all" in q or "every" in q
wants_all(text) ==
    \E w \in text : has_token(w, "all") \/ has_token(w, "every")

\* apply_masks, line 719
wants_specific(text) ==
    \E w \in text :
        \E tok \in {"single", "one", "top", "best", "largest", "smallest"} :
            has_token(w, tok)

query_flags(text) == [all |-> wants_all(text), specific |-> wants_specific(text)]

\* n contours that _sanitize_contour accepts, all of score s except the one
\* found last, of score t
found(n, s, t) ==
    [i \in 1..n |-> [ok |-> TRUE, score |-> IF i = n THEN t ELSE s]]

\* detection results: more contours than _store_proposals keeps, all of one
\* score; one more than apply_masks selects, the best found last; a few
\* with the best first; scores below zero (_query_score subtracts for
\* specks); one contour that _sanitize_contour rejects among good ones
WideDets ==
    {found(proposal_limit + 1, 1, 1),
     found(max_selected + 1, 1, 2),
     <<[ok |-> TRUE, score |-> 2], [ok |-> TRUE, score |-> 1]>>,
     found(3, -1, -1),
     <<[ok |-> TRUE, score |-> 1], [ok |-> FALSE, score |-> 1],
       [ok |-> TRUE, score |-> 2], [ok |-> TRUE, score |-> 2]>>,
     <<[ok |-> FALSE, score |-> 1]>>}

WideProposals == {store_proposals(det) : det \in WideDets}

\* index lists: empty, one index, a repeated one, two in the caller's
\* order, below the range, the last index of a 221-proposal set, one
\* beyond every set
WideIndexLists ==
    {<<>>, <<0>>, <<1>>, <<1, 1>>, <<1, 0>>, <<-1>>, <<max_selected>>,
     <<proposal_limit>>}

ApplyCalls ==
    {[fn |-> "apply", done |-> FALSE, proposals |-> P, dims |-> <<2, 2>>,
      indices |-> ix, text |-> t, msg |-> "", selected |-> <<>>,
      masks |-> <<>>] :
        P \in WideProposals, ix \in WideIndexLists, t \in QueryTexts}

\* apply_masks on a Segmenter that holds call.proposals and no mask set
call_apply ==
    /\ call.fn = "apply" /\ ~call.done
    /\ LET q == query_flags(call.text)
           msg == apply_reply(call.indices, q, call.proposals)
           ok == msg = MsgApplied
       IN call' = [call EXCEPT
                     !.done = TRUE,
                     !.msg = msg,
                     !.selected =
                         IF ok THEN selected_indices(call.indices, q,
                                                     call.proposals)
                         ELSE <<>>,
                     !.masks =
                         IF ok THEN install(<<>>,
                                            new_mask(call.indices, q,
                                                     call.proposals,
                                                     call.dims, 0))
                         ELSE <<>>]
    /\ UNCHANGED <<conn, seg, hist>>

\* a mask set as apply_masks installs it, of one contour
SomeMask ==
    new_mask(<<0>>, [all |-> FALSE, specific |-> TRUE],
             store_proposals(found(1, 1, 1)), <<2, 2>>, 0)

RecalcCalls ==
    {[fn |-> "recalc", done |-> FALSE, md |-> md, hw |-> hw, det |-> det,
      raises |-> r, out |-> md, masks |-> <<>>] :
        md \in {SomeMask, ensure_scaled(SomeMask, <<2, 2>>)},
        det \in WideDets \cup {<<>>}, hw \in {<<2, 2>>, <<4, 4>>},
        r \in BOOLEAN}

\* _recalc_masks on a Segmenter whose mask set is call.md, without or with
\* a render cache; the detection on the (h, w) frame returns call.det, or
\* raises, which the pass catches at 892-894 and goes on to the next set
call_recalc ==
    /\ call.fn = "recalc" /\ ~call.done
    /\ LET det == IF call.raises THEN <<>> ELSE call.det
       IN call' = [call EXCEPT
                     !.done = TRUE,
                     !.out = recalc_mask(call.md, call.hw, det),
                     !.masks = recalc_masks(<<call.md>>, call.hw, det)]
    /\ UNCHANGED <<conn, seg, hist>>

StoreCalls ==
    {[fn |-> "store", done |-> FALSE, det |-> det, dims |-> dims,
      latest_proposals |-> <<>>, original_dimensions |-> NoDims] :
        det \in WideDets, dims \in {<<2, 2>>, <<4, 4>>}}

\* _store_proposals on the contours call.det of an image of shape call.dims
call_store ==
    /\ call.fn = "store" /\ ~call.done
    /\ call' = [call EXCEPT !.done = TRUE,
                            !.latest_proposals = store_proposals(call.det),
                            !.original_dimensions =
                                stored_dimensions(call.dims)]
    /\ UNCHANGED <<conn, seg, hist>>

\* --- render_frame called frame after frame

\* the frames handed to render_frame: strings, of two sizes or undecodable
RenderFrames ==
    {[id |-> 0, kind |-> k, dims |-> KindDims(k)] : k \in {"b64", "uri", "junk"}}

\* the record of the calls: the counts of the calls that ran _recalc_masks,
\* and of the last call the size of its frame and whether it returned an
\* overlay
NoRenders == [fn |-> "render", passes |-> {}, hw |-> NoDims, overlay |-> FALSE]

\* render_frame, lines 929-974, from call to return, nothing else running;
\* det is what the detection of the recalibration pass returns
render_call(f, det) ==
    /\ call.fn = "render" /\ frame_counter < MaxRenders
    /\ LET raw == Strip(f)
           hw == decode(raw)
           overlay == ~fast_path(active_masks) /\ hw # NoDims
           pass == overlay /\ (frame_counter + 1) % recalc_interval = 0
           recalced == IF pass THEN recalc_masks(active_masks, hw, det)
                       ELSE active_masks
       IN /\ (det # <<>> => pass)
          /\ latest_b64' = raw
          /\ frame_counter' = frame_counter + 1
          /\ active_masks' =
                 IF overlay
                 THEN [i \in 1..Len(recalced) |-> ensure_scaled(recalced[i], hw)]
                 ELSE active_masks
          /\ call' = [call EXCEPT
                        !.passes = IF pass THEN @ \cup {frame_counter + 1}
                                   ELSE @,
                        !.hw = hw,
                        !.overlay = overlay]
    /\ UNCHANGED <<conn, latest_proposals, original_dimensions, color_idx,
                   pending, hist>>

\* --- the projection of a contour

\* image sizes (h, w): wide, square, tall
ProjDims == {<<3, 5>>, <<4, 4>>, <<6, 2>>}

\* one-point contours at every pixel of the source image and just outside
\* it, to be normalized at the source size and projected to a target size
ProjectCalls ==
    UNION {{[fn |-> "project", done |-> FALSE, dims |-> d, dst |-> t,
             contour |-> <<<<x, y>>>>, out |-> <<>>] :
                x \in (-1)..d[2], y \in (-1)..d[1]} :
           d \in ProjDims, t \in ProjDims}

\* _contours_from_normalized(_normalize_contours([contour], dims), h, w)
call_project ==
    /\ call.fn = "project" /\ ~call.done
    /\ call' = [call EXCEPT
                  !.done = TRUE,
                  !.out = project_points(normalize_points(call.contour,
                                                          call.dims),
                                         call.dst)]
    /\ UNCHANGED <<conn, seg, hist>>

\* --- the choice of the detection backend

\* HAS_CELLPOSE is False whether or not the import succeeds
has_cellpose == FALSE

\* the process: whether sam2 imports (HAS_SAM2), whether SAM2_CHECKPOINT is
\* set, SEGMENTATION_BACKEND, SEGMENTATION_AUTO_FAST
BackendEnvs ==
    [has_sam2 : BOOLEAN, ckpt : BOOLEAN, default : {"auto", "sam2"},
     auto_fast : BOOLEAN]

\* one run: what the SAM2 generator does when it is used ("more": it finds
\* meaningfully more contours than the built-in path), and whether the
\* first detection exceeds propose_masks' timeout
BackendRuns == [sam2 : {"ok", "more", "raises"}, timeout : BOOLEAN]

\* the backend argument of propose_masks; "none" for None
BackendArgs == {"none", "auto", "opencv", "cellpose", "sam2", "bogus"}

\* backend or self._default_backend or "auto"
requested(b, e) == IF b # "none" THEN b ELSE e.default

\* Segmenter._resolve_backend
resolve_backend(b, e) ==
    LET selected == IF requested(b, e) \in {"auto", "opencv", "cellpose", "sam2"}
                    THEN requested(b, e) ELSE "auto"
    IN IF selected = "auto" THEN "auto"
       ELSE IF selected = "cellpose" /\ ~has_cellpose THEN "opencv"
       ELSE IF selected = "sam2" /\ ~e.has_sam2 THEN "opencv"
       ELSE selected

\* Segmenter._find_contours_cellpose: who finds the contours; without a
\* model it is the built-in path
find_contours_cellpose(e, run) == "opencv"

\* Segmenter._find_contours_sam2: who finds the contours, or "raise";
\* without a generator (no sam2, or no checkpoint configured) it is the
\* built-in path
find_contours_sam2(e, run) ==
    IF ~e.has_sam2 \/ ~e.ckpt THEN "opencv"
    ELSE IF run.sam2 = "raises" THEN "raise"
    ELSE "sam2"

\* Segmenter._find_contours_dispatch: the name it returns and who found
\* the contours it returns
find_contours_dispatch(b, e, run) ==
    IF requested(b, e) = "auto"
    THEN IF e.auto_fast
         THEN [used |-> "opencv", producer |-> "opencv"]
         ELSE IF e.has_sam2 /\ find_contours_sam2(e, run) = "sam2"
                 /\ run.sam2 = "more"
         THEN [used |-> "sam2", producer |-> "sam2"]
         ELSE [used |-> "opencv", producer |-> "opencv"]
    ELSE LET selected == resolve_backend(b, e)
         IN IF selected = "cellpose"
            THEN [used |-> "cellpose",
                  producer |-> find_contours_cellpose(e, run)]
            ELSE IF selected = "sam2"
            THEN IF find_contours_sam2(e, run) = "raise"
                 THEN [used |-> "opencv", producer |-> "opencv"]
                 ELSE [used |-> "sam2",
                       producer |-> find_contours_sam2(e, run)]
            ELSE [used |-> "opencv", producer |-> "opencv"]

\* propose_masks, lines 652-677: the backend the reply names and the one
\* whose contours it returns (after a timeout of the built-in path there
\* are none)
propose_backend(b, e, run) ==
    LET selected_backend == resolve_backend(b, e)
    IN IF ~run.timeout THEN find_contours_dispatch(selected_backend, e, run)
       ELSE IF selected_backend # "opencv"
       THEN find_contours_dispatch("opencv", e, run)
       ELSE [used |-> "opencv", producer |-> "opencv"]

BackendCalls ==
    {[fn |-> "backend", done |-> FALSE, backend |-> b, env |-> e,
      run |-> r, used |-> "", producer |-> ""] :
        b \in BackendArgs, e \in BackendEnvs, r \in BackendRuns}

\* the detection of one propose_masks call
call_backend ==
    /\ call.fn = "backend" /\ ~call.done
    /\ LET r == propose_backend(call.backend, call.env, call.run)
       IN call' = [call EXCEPT !.done = TRUE, !.used = r.used,
                               !.producer = r.producer]
    /\ UNCHANGED <<conn, seg, hist>>

\* ------------------------------------------------------------------------
\* The system
\* ------------------------------------------------------------------------

\* A connection that has just been accepted.  The Segmenter is created once
\* per process and outlives connections: it starts a connection with the
\* frame counter (and the last frame) earlier connections left behind.
Init ==
    /\ ws = "open"
    /\ latest_frame = [data |-> NoFrame, event |-> FALSE]
    /\ rpc = "recv" /\ ppc = "start"
    /\ frame = NoFrame /\ edited_frame = NoFrame /\ render_err = FALSE
    /\ active_masks = <<>> /\ latest_proposals = <<>>
    /\ original_dimensions = NoDims
    /\ frame_counter \in {0, recalc_interval - 1}
    /\ latest_b64 = IF frame_counter = 0 THEN NoFrame
                    ELSE [id |-> 0, kind |-> "b64", dims |-> <<2, 2>>]
    /\ color_idx = 0
    /\ pending = <<>>
    /\ nmsgs = 0 /\ newest = 0 /\ processed = <<>> /\ dropped = {}
    /\ nsent = 0
    /\ ncalls = 0 /\ last = NoCall
    /\ call = NoCall

receiver ==
    \/ \E k \in FrameKinds : receiver_frame(k)
    \/ receiver_noframe
    \/ receiver_disconnect

processor ==
    \/ processor_start
    \/ processor_wake
    \/ processor_catch
    \/ processor_send

render_frame ==
    \/ render_frame_enter
    \/ \E fail \in {"none", "recalc", "scale", "draw", "encode"} :
           \E det \in DetResults : render_frame_overlay(fail, det)

query_path ==
    \/ \E f \in ProposeFrames : propose_masks_begin(f)
    \/ \E i \in 1..MaxEvents : \E det \in DetResults : propose_masks_end(i, det)
    \/ \E indices \in IndexLists : \E q \in Queries : apply_masks(indices, q)
    \/ clear

Next ==
    \/ receiver
    \/ client_disconnect
    \/ processor
    \/ render_frame
    \/ query_path

Spec == Init /\ [][Next]_vars

\* The event loop runs every task that is ready, the worker thread runs
\* render_frame to its end, and a closed transport is reported to
\* websocket.receive().  Nothing obliges the client or the query path to act.
FairSpec ==
    /\ Spec
    /\ WF_vars(processor)
    /\ WF_vars(render_frame)
    /\ WF_vars(receiver_disconnect)

\* The Segmenter's functions, each called once on an input of its own.
\* The connection and the engine stay as constructed.
PureInit ==
    /\ ws = "open"
    /\ latest_frame = [data |-> NoFrame, event |-> FALSE]
    /\ rpc = "recv" /\ ppc = "start"
    /\ frame = NoFrame /\ edited_frame = NoFrame /\ render_err = FALSE
    /\ active_masks = <<>> /\ latest_proposals = <<>>
    /\ original_dimensions = NoDims
    /\ frame_counter = 0 /\ latest_b64 = NoFrame
    /\ color_idx = 0
    /\ pending = <<>>
    /\ nmsgs = 0 /\ newest = 0 /\ processed = <<>> /\ dropped = {}
    /\ nsent = 0
    /\ ncalls = 0 /\ last = NoCall
    /\ call \in ApplyCalls \cup RecalcCalls \cup StoreCalls \cup BackendCalls
                 \cup ProjectCalls

PureNext ==
    \/ call_apply
    \/ call_recalc
    \/ call_store
    \/ call_backend
    \/ call_project

PureSpec == PureInit /\ [][PureNext]_vars

\* A connection accepted while a mask set is live (the Segmenter outlives
\* connections), render_frame taken step by step.
ThreadInit ==
    /\ ws = "open"
    /\ latest_frame = [data |-> NoFrame, event |-> FALSE]
    /\ rpc = "recv" /\ ppc = "start"
    /\ frame = NoFrame /\ edited_frame = NoFrame /\ render_err = FALSE
    /\ active_masks = <<SomeMask>>
    /\ latest_proposals = store_proposals(found(1, 1, 1))
    /\ original_dimensions = <<2, 2>>
    /\ latest_b64 = [id |-> 0, kind |-> "b64", dims |-> <<2, 2>>]
    /\ color_idx = 1
    /\ frame_counter \in {0, recalc_interval - 1}
    /\ pending = <<>>
    /\ nmsgs = 0 /\ newest = 0 /\ processed = <<>> /\ dropped = {}
    /\ nsent = 0
    /\ ncalls = 0 /\ last = NoCall
    /\ call = NoCall

render_thread ==
    \/ render_frame_enter
    \/ \E det \in DetResults : thread_decode(det)
    \/ thread_scale
    \/ thread_fill
    \/ thread_outline

ThreadNext ==
    \/ receiver
    \/ client_disconnect
    \/ processor
    \/ render_thread
    \/ query_path

ThreadSpec == ThreadInit /\ [][ThreadNext]_vars

\* render_frame called frame after frame on a Segmenter that is as
\* constructed or has one mask set live: propose_masks on a 2 x 2 frame of
\* its own found one contour and apply_masks([0]) selected it.
RenderInit ==
    /\ ws = "open"
    /\ latest_frame = [data |-> NoFrame, event |-> FALSE]
    /\ rpc = "recv" /\ ppc = "start"
    /\ frame = NoFrame /\ edited_frame = NoFrame /\ render_err = FALSE
    /\ \/ /\ active_masks = <<>> /\ latest_proposals = <<>>
          /\ original_dimensions = NoDims
          /\ latest_b64 = NoFrame /\ color_idx = 0
       \/ /\ active_masks = <<SomeMask>>
          /\ latest_proposals = store_proposals(found(1, 1, 1))
          /\ original_dimensions = <<2, 2>>
          /\ latest_b64 = [id |-> 0, kind |-> "b64", dims |-> <<2, 2>>]
          /\ color_idx = 1
    /\ frame_counter = 0
    /\ pending = <<>>
    /\ nmsgs = 0 /\ newest = 0 /\ processed = <<>> /\ dropped = {}
    /\ nsent = 0
    /\ ncalls = 0 /\ last = NoCall
    /\ call = NoRenders

RenderNext == \E f \in RenderFrames : \E det \in DetResults : render_call(f, det)

RenderSpec == RenderInit /\ [][RenderNext]_vars

\* ------------------------------------------------------------------------
\* Properties
\* ------------------------------------------------------------------------

NonDecreasing(s) == \A i, j \in 1..Len(s) : i <= j => s[i] <= s[j]

\* the processor hands a frame to render_frame in this step
HandsOver == Len(processed') > Len(processed)

\* render_frame returns or raises in this step
RenderEnds == ppc \in {"render", "overlay"} /\ ppc' \in {"send", "catch"}

\* the bytes of f with a data-URI prefix, if any, removed
Payload(f) == [id |-> f.id,
               kind |-> IF f.kind = "uri" THEN "b64" ELSE f.kind,
               dims |-> f.dims]

\* C1: every frame handed to render_frame is the one the slot holds when
\* the processor resumes, which is the newest frame received; the frames
\* handed over are in arrival order (an older one never follows a newer one).
C1_LatestFrameOnly ==
    [][HandsOver =>
          /\ frame' = latest_frame.data
          /\ frame'.id = newest
          /\ processed' = Append(processed, newest)
          /\ NonDecreasing(processed')]_vars

\* frame 2 was skipped: frame 1 and then frame 3 were handed over
C1_Witness == processed = <<1, 3>> /\ 2 \in dropped

\* C2: while the transport stays connected, a frame written to the slot is
\* eventually handed to render_frame unless a newer one overwrites it, so
\* the loop ends on the last frame pushed; a frame overwritten before it
\* was read is never processed, so the frames processed are a strict
\* subset whenever frames arrive faster than they are drained.
C2_EndsOnLastFrame ==
    /\ [](dropped \cap SeqRange(processed) = {})
    /\ \A k \in 1..MaxEvents :
           (newest = k /\ ws = "open")
               ~> (k \in SeqRange(processed) \/ newest > k \/ ws = "closed")

\* frames were dropped, and the loop has processed the last one pushed and
\* waits for more
C2_Witness ==
    /\ ws = "open" /\ dropped # {} /\ processed # <<>>
    /\ Last(processed) = newest /\ ppc = "blocked"

\* C3: after the transport disconnects, both loops eventually terminate.
C3_BothLoopsTerminate == (ws = "closed") ~> (rpc = "done" /\ ppc = "done")

C6_RenderFailureKeepsLoop ==
    [][ppc = "catch" =>
          /\ ppc' \in {"catch", "send"}
          /\ ppc' = "send" => (edited_frame' = Payload(frame) /\ render_err')]_vars

\* C7: at most one active mask set is live.
C7_AtMostOneActive == Len(active_masks) <= 1

\* a second successful select has replaced the set of the first
C7_Witness == Len(active_masks) = 1 /\ color_idx = 2

\* C8: clear_masks leaves no active mask set and no proposal, and a second
\* clear_masks changes nothing in the engine state.
C8_ClearIdempotent ==
    [][(ncalls' # ncalls /\ last'.op = "clear") =>
          /\ active_masks' = <<>>
          /\ latest_proposals' = <<>>
          /\ clear_masks(SegState') = SegState']_vars

\* a clear that removed a live mask set
C8_Witness ==
    /\ last.op = "clear" /\ last.n = 1
    /\ active_masks = <<>> /\ latest_proposals = <<>>

\* C9 (as stated): clear() then select([]) fails with the no-valid-indices
\* signal and installs nothing.
C9_ClearSelectNoValid ==
    [][(last.op = "clear" /\ \E q \in Queries : apply_masks(<<>>, q)) =>
          (last'.msg = MsgNoValid /\ active_masks' = <<>>)]_vars

\* C9 (amended): clear() then select([]) fails with the no-proposals
\* signal, which is tested before the indices, and installs nothing.
C9_ClearSelectNoProposals ==
    [][(last.op = "clear" /\ \E q \in Queries : apply_masks(<<>>, q)) =>
          (last'.msg = MsgNoProposals /\ active_masks' = <<>>)]_vars

\* select([]) right after clear() was refused
C9_Witness ==
    /\ last.op = "apply" /\ last.prev = "clear" /\ last.nidx = 0
    /\ last.msg = MsgNoProposals /\ active_masks = <<>>

\* C10: with proposals live, select fails with the no-valid-indices signal
\* exactly when no index survives and the query does not ask for all.
C10_NoValidIffNoneAndNotAll ==
    [][\A indices \in IndexLists : \A q \in Queries :
          (apply_masks(indices, q) /\ latest_proposals # <<>>) =>
              ((last'.msg = MsgNoValid) <=>
                   (valid_indices(indices, latest_proposals) = <<>>
                    /\ ~q.all))]_vars

\* an apply_masks call that has returned
Applied == call.fn = "apply" /\ call.done

\* the caller's indices that are in range, first occurrence only
CallValid == valid_indices(call.indices, call.proposals)

\* 0 .. n - 1
FirstIndices(n) == [i \in 1..n |-> i - 1]

\* C11: when the query contains "all" or "every" and there are more
\* proposals than valid caller indices, the selection is the proposal
\* indices 0 .. min(220, count) - 1.
C11_AllSelectsEveryProposal ==
    (Applied /\ wants_all(call.text)
       /\ Len(call.proposals) > Len(CallValid)) =>
        /\ call.msg = MsgApplied
        /\ call.selected =
              FirstIndices(Min(max_selected, Len(call.proposals)))

\* C12: a successful select whose query has no single-item keyword
\* includes a proposal of the top score.
C12_SelectionIncludesPeak ==
    (Applied /\ call.msg = MsgApplied /\ ~wants_specific(call.text)) =>
        \E i \in SeqRange(call.selected) :
            call.proposals[i + 1].score = peak_score(call.proposals)

\* the band thresholds compared, in hundredths of the peak score
BandPcts == {50, ConfPct, 100}

\* C13: with proposals, indices and query fixed, the selection made with a
\* higher band threshold is a subset of the one made with a lower threshold.
C13_BandMonotone ==
    (Applied /\ CallValid # <<>>) =>
        \A lower, higher \in BandPcts :
            lower <= higher =>
                SeqRange(selected_indices_at(call.indices,
                                             query_flags(call.text),
                                             call.proposals, higher))
                  \subseteq
                SeqRange(selected_indices_at(call.indices,
                                             query_flags(call.text),
                                             call.proposals, lower))

\* C14: a query with a single-item keyword that does not ask for all or
\* every activates exactly the caller's valid indices, cut at 220.
C14_SpecificNoExpansion ==
    (Applied
       /\ call.text \cap {"single", "one", "top", "best", "largest",
                          "smallest"} # {}
       /\ call.text \cap {"all", "every"} = {}
       /\ call.proposals # <<>>) =>
        call.selected = SubSeq(CallValid, 1, Min(Len(CallValid), max_selected))

\* C15: a mask set holds at most 220 contours, as apply_masks installs it
\* and as _recalc_masks leaves it.
C15_AtMost220Contours ==
    /\ Applied =>
          \A i \in 1..Len(call.masks) :
              Len(call.masks[i].original_contours) <= max_selected
    /\ (call.fn = "recalc" /\ call.done) =>
          Len(call.out.original_contours) <= max_selected

\* out of 400 proposals, all in the band, 220 were activated
C15_Witness ==
    /\ Applied /\ Len(call.proposals) = proposal_limit
    /\ call.masks # <<>>
    /\ Len(call.masks[1].original_contours) = max_selected

ReturnsNoImage ==
    /\ \E f \in ProposeFrames : propose_masks_begin(f)
    /\ pending' = pending

\* what the proposal set must be after a call whose detection returned det
Produced(det) == IF det = <<>> THEN <<>> ELSE store_proposals(det)

C18_SelectFrame ==
    [][(\E indices \in IndexLists : \E q \in Queries :
            apply_masks(indices, q)) =>
          /\ latest_proposals' = latest_proposals
          /\ original_dimensions' = original_dimensions
          /\ last'.msg # MsgApplied => SegState' = SegState]_vars

\* a select was refused while a mask set was live, and the set is still
\* live
C18_Witness ==
    /\ last.op = "apply" /\ last.msg = MsgNoValid
    /\ Len(active_masks) = 1 /\ color_idx = 1

\* C20: a propose call without a frame, on an engine that has seen no
\* frame, returns the no-image message and leaves the proposal set and
\* the mask sets as they were.
C20_NoImageIsAReply ==
    [][(propose_masks_begin(NoFrame) /\ latest_b64 = NoFrame) =>
          /\ last'.op = "propose" /\ last'.msg = MsgNoImage
          /\ pending' = pending
          /\ latest_proposals' = latest_proposals
          /\ active_masks' = active_masks]_vars

\* the call was answered with the no-image message
C20_Witness ==
    /\ last.op = "propose" /\ last.msg = MsgNoImage
    /\ latest_b64 = NoFrame /\ pending = <<>>

\* C19: the backend the reply of propose names is the one that produced
\* the candidates it returns.
C19_ReportedBackendProduced ==
    (call.fn = "backend" /\ call.done) => call.used = call.producer

\* C22: a contour normalized at (H,W) and projected back to the same (H,W)
\* has every point that lies inside the image within one pixel of where it
\* was.
C22_RoundTripWithinOne ==
    (call.fn = "project" /\ call.done /\ call.dst = call.dims) =>
        \A i \in 1..Len(call.contour) :
            LET p == call.contour[i]
                q == call.out[i]
            IN (p[1] \in 0..(call.dims[2] - 1)
                  /\ p[2] \in 0..(call.dims[1] - 1)) =>
                   (q[1] - p[1] \in (-1)..1 /\ q[2] - p[2] \in (-1)..1)

\* the last pixel of the last row of a 3 x 5 image came back as it was
C22_Witness ==
    /\ call.fn = "project" /\ call.done
    /\ call.dims = <<3, 5>> /\ call.dst = <<3, 5>>
    /\ call.contour = <<<<4, 2>>>> /\ call.out = <<<<4, 2>>>>

\* the cache of md is the one for an (h, w) frame: its key is (h, w), it
\* has a raster, its contours are the projection of the normalized contours
\* md holds now, and every pixel of them is inside the frame
Validated(md, hw) ==
    /\ md.scaled_for = hw /\ md.raster # "None"
    /\ md.contours = contours_from_normalized(md.normalized_contours, hw)
    /\ \A i \in 1..Len(md.contours) :
           LET px == pixels(md.contours[i])
           IN \A j \in 1..Len(px) : /\ px[j][1] \in 0..(hw[2] - 1)
                                    /\ px[j][2] \in 0..(hw[1] - 1)

C23_OncePerSixtyFrames ==
    (call.fn = "render" /\ active_masks # <<>>) =>
        \A a \in 0..(frame_counter - recalc_interval) :
            Cardinality(call.passes \cap ((a + 1)..(a + recalc_interval))) = 1

\* the recalibration pass of the call found no instance: the detection
\* raised, returned nothing, returned nothing _sanitize_contour accepts, or
\* nothing it returned reaches the band's floor
FoundNothing ==
    \/ call.raises
    \/ call.det = <<>>
    \/ LET kept == SelectSeq(call.det, LAMBDA c : c.ok)
       IN \A i \in 1..Len(kept) :
              \E j \in 1..Len(kept) :
                  /\ \A k \in 1..Len(kept) : kept[k].score <= kept[j].score
                  /\ ~in_band(kept[i].score, kept[j].score)

\* C24: a recalibration pass that finds no instance for a mask set leaves
\* the set live with its contours, normalized contours, source dimensions
\* and render cache as they were.
C24_EmptyRecalcKeepsSet ==
    (call.fn = "recalc" /\ call.done /\ FoundNothing) =>
        call.masks = <<call.md>>

\* the pass found three contours, none of them reaching the band's floor,
\* and the set still has the cache it had for 2 x 2 frames
C24_Witness ==
    /\ call.fn = "recalc" /\ call.done /\ ~call.raises
    /\ Len(call.det) = 3 /\ FoundNothing
    /\ Len(call.masks) = 1
    /\ call.masks[1].scaled_for = <<2, 2>> /\ call.masks[1].raster = "mask"
    /\ call.masks[1].original_contours = SomeMask.original_contours

\* C25: every mask set a draw loop of render_frame comes upon has the
\* cache that this call's validation made for the size of its frame: the
\* collection does not change under a render in progress.
C25_DrawsWhatItValidated ==
    [][(thread_fill \/ thread_outline) =>
          \A i \in 1..Len(active_masks) :
              /\ active_masks[i].scaled_for = decode(Strip(frame))
              /\ active_masks[i].raster # "None"]_vars

\* C26: of two propose calls that overlap, the one issued later leaves the
\* live proposal set: when a call returns right after a call issued after
\* it has returned, the proposal set stays the one of the later call.
C26_LaterProposeWins ==
    [][\A i \in 1..MaxEvents : \A det \in DetResults :
          (propose_masks_end(i, det)
             /\ last.op = "propose" /\ last.msg = MsgProposed
             /\ last.k > pending[i].k) =>
              latest_proposals' = latest_proposals]_vars

\* C27: once the engine has decoded a frame (here: a propose call has left
\* proposals, or a mask set is live, which takes both a decoded frame), a
\* propose call without a frame finds an image: it does not return the
\* no-image message but goes on to run its detection.
C27_ProposeReusesDecodedFrame ==
    [][(propose_masks_begin(NoFrame)
          /\ (latest_proposals # <<>> \/ active_masks # <<>>)) =>
          (Len(pending') = Len(pending) + 1 /\ last' = last)]_vars

\* C28: whenever the slot holds a frame the processor has not read, the
\* event is set and the processor is not blocked in wait().
C28_NoLostWakeup == Unread => (latest_frame.event /\ ppc # "blocked")

\* a frame arrived while the processor was busy with the one before it,
\* which it is about to send
C28_Witness ==
    /\ Unread /\ latest_frame.event /\ ppc = "send"
    /\ frame # NoFrame /\ latest_frame.data.id = frame.id + 1

\* C29: no received frame is handed to render_frame twice.
C29_RenderedAtMostOnce ==
    \A i, j \in 1..Len(processed) : i # j => processed[i] # processed[j]

====
